---- MODULE Spec2Model ----
(***************************************************************************)
(* Model of springer_books.py: the Springer COUNTER book report            *)
(* enhancement.  RunReportEnhancement opens a workbook, inserts six        *)
(* columns, visits the rows first_row..max_row in increasing order, looks  *)
(* every row with an ISSN up on link.springer.com (three endpoints in      *)
(* sequence), parses the page, writes six cells and saves the workbook     *)
(* every 1000 rows and once more at the end.                               *)
(*                                                                         *)
(* One run of RunReportEnhancement is split into steps (pc) at the places  *)
(* where the outside world can observe or interfere with it: the network   *)
(* requests, the saves and the termination of the process.  Up to MaxRuns  *)
(* runs follow one another on the same files, so that a resumed run        *)
(* (--rerun) finds the versioned file a previous run has left.             *)
(***************************************************************************)
EXTENDS Integers, Sequences, FiniteSets, TLC

(***************************************************************************)
(* Program constants and bounds of the model.                              *)
(***************************************************************************)
VERSION == 1
SaveInterval == 1000
NotFound == 404
NewCols == 6

\* The sheet's rows MinRow..max_row are modelled; the rows above MinRow are
\* never visited by a run whose first_row is at least MinRow.
MinRow == 999
NumRows == 2
SrcCols == 3
MaxRuns == 2

max_row == MinRow + NumRows - 1
Rows == MinRow..max_row
GridCols == SrcCols + NewCols
Cols == 1..GridCols

\* (doi_column, issn_column) pairs given on the command line.
ColumnArgs == {<<"A", "B">>, <<"B", "C">>}
Filenames == {<<"report", "xlsx">>}

\* ord() of a column letter.
ord(letter) ==
  CASE letter = "A" -> 65
    [] letter = "B" -> 66
    [] letter = "C" -> 67
    [] letter = "D" -> 68
    [] letter = "G" -> 71

(***************************************************************************)
(* Cell values: None, a str or an int.                                     *)
(***************************************************************************)
None == [kind |-> "None", s |-> "", n |-> 0]
StrCell(t) == [kind |-> "str", s |-> t, n |-> 0]
IntCell(k) == [kind |-> "int", s |-> "", n |-> k]

\* Python truthiness of a cell value.
Truthy(v) ==
  \/ v.kind = "str" /\ v.s # ""
  \/ v.kind = "int" /\ v.n # 0

(***************************************************************************)
(* Worksheets: a grid of cells.                                            *)
(***************************************************************************)
BlankGrid == [r \in Rows |-> [c \in Cols |-> None]]

\* ws.cell(row, column).value
cell(ws, row, column) ==
  IF row \in Rows /\ column \in Cols THEN ws[row][column] ELSE None

\* ws.cell(row, column).value = v
set_cell(ws, row, column, v) ==
  [ws EXCEPT ![row] = [@ EXCEPT ![column] = v]]

\* ws.insert_cols(idx, amount): the columns from idx on move right by amount.
insert_cols(ws, idx, amount) ==
  [r \in Rows |->
    [c \in Cols |->
      IF c < idx THEN ws[r][c]
      ELSE IF c < idx + amount THEN None
      ELSE ws[r][c - amount]]]

(***************************************************************************)
(* Files.  A filename is the list filename.split(".") yields.              *)
(***************************************************************************)
NoFile == [exists |-> FALSE, grid |-> BlankGrid]
File(g) == [exists |-> TRUE, grid |-> g]

new_filename_of(split_filename) ==
  <<split_filename[1] \o "_v" \o ToString(VERSION), split_filename[2]>>

FileNames == Filenames \cup {new_filename_of(f) : f \in Filenames}

\* series_col_of with a fault: the columns are inserted before the ISSN column.
series_col_before_issn(issn_letter) == ord(issn_letter) - 64

\* The column numbers RunReportEnhancement derives from the ISSN letter.
series_col_of(issn_letter) == ord(issn_letter) - 63
acronym_col_of(issn_letter) == series_col_of(issn_letter) + 1
volume_col_of(issn_letter) == series_col_of(issn_letter) + 2
year_col_of(issn_letter) == series_col_of(issn_letter) + 3
package_col_of(issn_letter) == series_col_of(issn_letter) + 4
subseries_col_of(issn_letter) == series_col_of(issn_letter) + 5
issn_index(issn_letter) == ord(issn_letter) - 64
doi_index(doi_letter) == ord(doi_letter) - 64

(***************************************************************************)
(* Pages.  A text node carries what the script's regular expressions find  *)
(* in it: acr for \(([A-Za-z\+]+), vol for "volume (.+)\)", lvol for       *)
(* "Volume (.+) " and yr for \d\d\d\d ("" and 0: no match).  A page gives, *)
(* for each xpath the script evaluates, the list of text nodes it selects. *)
(***************************************************************************)
Text(s, acr, vol, lvol, yr) ==
  [s |-> s, acr |-> acr, vol |-> vol, lvol |-> lvol, yr |-> yr]
Plain(s) == Text(s, "", "", "", 0)

NoneHtml ==
  [isNone |-> TRUE, test_series_a |-> <<>>, test_series_span |-> <<>>,
   copyright_info |-> <<>>, ebook_package |-> <<>>, test_subseries_a |-> <<>>,
   publication_title |-> <<>>, document_enumeration |-> <<>>]

\* A page none of the xpaths selects anything in (an error page, say).
OtherPage == [NoneHtml EXCEPT !.isNone = FALSE]

\* A book page of link.springer.com.
BookPage ==
  [OtherPage EXCEPT
    !.test_series_a = <<Plain("Lecture Notes in Computer Science")>>,
    !.test_series_span = <<Text("(LNCS, volume 1234)", "LNCS", "1234", "", 1234)>>,
    !.copyright_info = <<Text("(c) 2018", "c", "", "", 2018)>>,
    !.ebook_package = <<Plain("Computer Science")>>,
    !.test_subseries_a = <<Plain("Lecture Notes in Artificial Intelligence")>>]

\* A Landolt-Bornstein page; it also has a series paragraph of the book layout.
LandoltPage ==
  [OtherPage EXCEPT
    !.test_series_a = <<Plain("Group III Condensed Matter")>>,
    !.publication_title = <<Plain("Landolt-Bornstein")>>,
    !.document_enumeration = <<Text("Volume 19A 1999", "", "", "19A", 1999)>>]

Pages == {OtherPage, BookPage, LandoltPage}

\* str(text.encode("utf-8")) of an ASCII text node, as a cell value.
Utf8Str(t) == StrCell(t.s)

\* DefaultDict with a fault: the series defaults to the empty string as well.
DefaultDictBlankSeries ==
  [series |-> StrCell(""), acronym |-> StrCell(""),
   volume |-> StrCell(""), year |-> StrCell(""), package |-> StrCell(""),
   subseries |-> StrCell("")]

DefaultDict ==
  [series |-> StrCell("Unavailable"), acronym |-> StrCell(""),
   volume |-> StrCell(""), year |-> StrCell(""), package |-> StrCell(""),
   subseries |-> StrCell("")]

ParseBookPage(book_html) ==
  IF book_html.isNone THEN DefaultDict
  ELSE
    LET series_text == book_html.test_series_a
        volume_text == book_html.test_series_span
        year_text == book_html.copyright_info
        package_text == book_html.ebook_package
        subseries_text == book_html.test_subseries_a
    IN [series |-> IF series_text # <<>> THEN Utf8Str(series_text[1])
                   ELSE DefaultDict.series,
        acronym |-> IF volume_text # <<>> /\ volume_text[1].acr # ""
                    THEN StrCell(volume_text[1].acr) ELSE DefaultDict.acronym,
        volume |-> IF volume_text # <<>> /\ volume_text[1].vol # ""
                   THEN StrCell(volume_text[1].vol) ELSE DefaultDict.volume,
        year |-> IF year_text # <<>> /\ year_text[1].yr # 0
                 THEN IntCell(year_text[1].yr) ELSE DefaultDict.year,
        package |-> IF package_text # <<>> THEN Utf8Str(package_text[1])
                    ELSE DefaultDict.package,
        subseries |-> IF subseries_text # <<>> THEN Utf8Str(subseries_text[1])
                      ELSE DefaultDict.subseries]

ParseLandoltBookPage(book_html) ==
  IF book_html.isNone THEN DefaultDict
  ELSE
    LET series_text == book_html.publication_title
        volume_text == book_html.document_enumeration
    IN [DefaultDict EXCEPT
         !.series = IF series_text # <<>> THEN Utf8Str(series_text[1]) ELSE @,
         !.volume = IF volume_text # <<>> /\ volume_text[1].lvol # ""
                    THEN StrCell(volume_text[1].lvol) ELSE @,
         !.year = IF volume_text # <<>> /\ volume_text[1].yr # 0
                  THEN IntCell(volume_text[1].yr) ELSE @]

(***************************************************************************)
(* State.                                                                  *)
(***************************************************************************)
VARIABLES
  fs,          \* the files on disk, by filename
  filename,    \* args.filename, as filename.split(".")
  doi_col,     \* args.doi_column
  issn_col,    \* args.issn_column
  first_row,   \* args.first_row of the current run
  rerun,       \* args.rerun of the current run
  pc,          \* where the current run is
  ws,          \* the worksheet in memory
  i,           \* the loop variable of RunReportEnhancement
  book_count,
  book_html,   \* the document RequestBookInfoPage returns (NoneHtml: None)
  landolt,     \* the flag RequestBookInfoPage returns
  reqs,        \* requests.get calls made for row i: <<endpoint, status>>
  out,         \* per row, the book_dict the current run has written
  parser,      \* the function that produced the book_dict of row i
  saves,       \* rows at which the current run has saved in the loop
  ws0,         \* the worksheet as the current run loaded it
  err,         \* the exception that ended the current run
  runs         \* runs started so far

vars == <<fs, filename, doi_col, issn_col, first_row, rerun, pc, ws, i,
          book_count, book_html, landolt, reqs, out, parser, saves, ws0, err, runs>>

args == <<filename, doi_col, issn_col>>
new_filename == new_filename_of(filename)
series_col == series_col_of(issn_col)
acronym_col == acronym_col_of(issn_col)
volume_col == volume_col_of(issn_col)
year_col == year_col_of(issn_col)
package_col == package_col_of(issn_col)
subseries_col == subseries_col_of(issn_col)

NoOut == [written |-> FALSE, dict |-> DefaultDict]
Running == {"loop", "book", "referencework", "dx.doi.org", "parse", "save"}
Stopped == {"idle", "done", "aborted", "killed"}

\* A source report: every row has its cells, except that the ISSN cell or the
\* DOI cell of a row may be empty.
RowKinds == {"full", "no_issn", "no_doi"}
SourceGrid(kind, doi_letter, issn_letter) ==
  [r \in Rows |->
    [c \in Cols |->
      IF \/ c > SrcCols
         \/ c = issn_index(issn_letter) /\ kind[r] = "no_issn"
         \/ c = doi_index(doi_letter) /\ kind[r] = "no_doi"
      THEN None
      ELSE StrCell("R" \o ToString(r) \o "C" \o ToString(c))]]

\* The state before the first run, for the column letters of one of `pairs`.
InitFor(pairs) ==
  /\ filename \in Filenames
  /\ \E a \in pairs : doi_col = a[1] /\ issn_col = a[2]
  /\ \E kind \in [Rows -> RowKinds] :
       fs = [f \in FileNames |->
              IF f = filename THEN File(SourceGrid(kind, doi_col, issn_col))
              ELSE NoFile]
  /\ first_row = MinRow
  /\ rerun = FALSE
  /\ pc = "idle"
  /\ ws = BlankGrid
  /\ i = MinRow
  /\ book_count = 0
  /\ book_html = NoneHtml
  /\ landolt = FALSE
  /\ reqs = <<>>
  /\ out = [r \in Rows |-> NoOut]
  /\ parser = "none"
  /\ saves = {}
  /\ ws0 = BlankGrid
  /\ err = "none"
  /\ runs = 0

Init == InitFor(ColumnArgs)

\* Every pair of column letters of the source sheet, the DOI column left of,
\* at or right of the ISSN column.
AnyColumnArgs == {"A", "B", "C"} \X {"A", "B", "C"}
InitAnyColumns == InitFor(AnyColumnArgs)

(***************************************************************************)
(* RunReportEnhancement, lines 54-70: the workbook is loaded.              *)
(***************************************************************************)
\* What every start of a run sets, whichever file it loads.
Enter(fr, rr) ==
  /\ pc \in Stopped
  /\ runs < MaxRuns
  /\ runs' = runs + 1
  /\ first_row' = fr
  /\ rerun' = rr
  /\ i' = fr
  /\ book_count' = 0
  /\ book_html' = NoneHtml
  /\ landolt' = FALSE
  /\ reqs' = <<>>
  /\ out' = [r \in Rows |-> NoOut]
  /\ parser' = "none"
  /\ saves' = {}
  /\ UNCHANGED <<fs, args>>

\* LoadedName with a fault: a rerun opens the source again.
LoadedNameSource(rr) == filename

\* The file a run loads: the versioned file on a rerun, else the source.
LoadedName(rr) == IF rr THEN new_filename ELSE filename

\* LoadedSheet with a fault: the six columns are inserted on a rerun too.
LoadedSheetInsertAlways(rr) ==
  insert_cols(fs[IF rr THEN new_filename ELSE filename].grid, series_col, NewCols)

\* The worksheet a run starts from: the six columns are inserted unless rerun.
LoadedSheet(rr) ==
  IF rr THEN fs[LoadedName(rr)].grid
  ELSE insert_cols(fs[LoadedName(rr)].grid, series_col, NewCols)

StartFresh(fr) ==
  /\ Enter(fr, FALSE)
  /\ fs[LoadedName(FALSE)].exists
  /\ ws' = LoadedSheet(FALSE)
  /\ ws0' = ws'
  /\ pc' = "loop"
  /\ err' = "none"

StartRerun(fr) ==
  /\ Enter(fr, TRUE)
  /\ fs[LoadedName(TRUE)].exists
  /\ ws' = LoadedSheet(TRUE)
  /\ ws0' = ws'
  /\ pc' = "loop"
  /\ err' = "none"

\* openpyxl.load_workbook raises when the file does not exist.
LoadFails(fr) ==
  /\ Enter(fr, TRUE)
  /\ ~fs[LoadedName(TRUE)].exists
  /\ ws' = BlankGrid
  /\ ws0' = BlankGrid
  /\ pc' = "aborted"
  /\ err' = "IOError"

\* The process ends: what it held in memory is gone.
Exit ==
  /\ ws' = BlankGrid
  /\ book_html' = NoneHtml
  /\ landolt' = FALSE
  /\ reqs' = <<>>
  /\ parser' = "none"

(***************************************************************************)
(* RunReportEnhancement, lines 73-93: the loop over the rows.              *)
(***************************************************************************)
\* HasIssn with a fault: the DOI column is tested in place of the ISSN column.
HasIssnWrongColumn(sheet, row) == Truthy(cell(sheet, row, doi_index(doi_col)))

\* Line 75: the row is enhanced when its ISSN cell is truthy.
HasIssn(sheet, row) == Truthy(cell(sheet, row, issn_index(issn_col)))

\* Line 77.
DoiOf(sheet, row) == cell(sheet, row, doi_index(doi_col))

\* Row i has no ISSN: nothing is requested and nothing is written.
SkipRow ==
  /\ pc = "loop"
  /\ i <= max_row
  /\ ~HasIssn(ws, i)
  /\ pc' = "save"
  /\ reqs' = <<>>
  /\ parser' = "none"
  /\ UNCHANGED <<fs, args, first_row, rerun, ws, i, book_count, book_html,
                 landolt, out, saves, ws0, err, runs>>

\* Row i has an ISSN and a DOI: RequestBookInfoPage is entered.
BeginRow ==
  /\ pc = "loop"
  /\ i <= max_row
  /\ HasIssn(ws, i)
  /\ DoiOf(ws, i).kind = "str"
  /\ book_count' = book_count + 1
  /\ pc' = "book"
  /\ reqs' = <<>>
  /\ parser' = "none"
  /\ UNCHANGED <<fs, args, first_row, rerun, ws, i, book_html, landolt, out,
                 saves, ws0, err, runs>>

\* Row i has an ISSN and no DOI: line 113 adds None to a str, a TypeError
\* nothing catches.
DoiTypeError ==
  /\ pc = "loop"
  /\ i <= max_row
  /\ HasIssn(ws, i)
  /\ DoiOf(ws, i).kind # "str"
  /\ book_count' = book_count + 1
  /\ pc' = "aborted"
  /\ err' = "TypeError"
  /\ Exit
  /\ UNCHANGED <<fs, args, first_row, rerun, i, out, saves, ws0, runs>>

(***************************************************************************)
(* RequestBookInfoPage.                                                    *)
(***************************************************************************)
Responses ==
  {[status |-> 200, content |-> p] : p \in Pages}
    \cup {[status |-> st, content |-> OtherPage] : st \in {NotFound, 500}}

\* IsNotFound with a fault: every answer other than 200 counts as not found.
IsNotOk(status_code) == status_code # 200

\* Lines 116, 120, 125: the next place is tried when this one is not found.
IsNotFound(status_code) == status_code = NotFound

\* Lines 113-116.
RequestBook(resp) ==
  /\ pc = "book"
  /\ reqs' = Append(reqs, <<"book", resp.status>>)
  /\ landolt' = FALSE
  /\ IF IsNotFound(resp.status)
       THEN pc' = "referencework" /\ UNCHANGED book_html
       ELSE pc' = "parse" /\ book_html' = resp.content
  /\ UNCHANGED <<fs, args, first_row, rerun, ws, i, book_count, out, parser,
                 saves, ws0, err, runs>>

\* Lines 117-120.
RequestReferencework(resp) ==
  /\ pc = "referencework"
  /\ reqs' = Append(reqs, <<"referencework", resp.status>>)
  /\ IF IsNotFound(resp.status)
       THEN pc' = "dx.doi.org" /\ UNCHANGED book_html
       ELSE pc' = "parse" /\ book_html' = resp.content
  /\ UNCHANGED <<fs, args, first_row, rerun, ws, i, book_count, landolt, out,
                 parser, saves, ws0, err, runs>>

\* LandoltFlag with a fault: the flag set at line 123 is returned at line 126 too.
LandoltFlagKept(status_code) == TRUE

\* The flag returned with the third place's answer (lines 123-128).
LandoltFlag(status_code) == ~IsNotFound(status_code)

\* Lines 121-128.
RequestDxDoi(resp) ==
  /\ pc = "dx.doi.org"
  /\ reqs' = Append(reqs, <<"dx.doi.org", resp.status>>)
  /\ landolt' = LandoltFlag(resp.status)
  /\ book_html' = IF IsNotFound(resp.status) THEN NoneHtml ELSE resp.content
  /\ pc' = "parse"
  /\ UNCHANGED <<fs, args, first_row, rerun, ws, i, book_count, out, parser,
                 saves, ws0, err, runs>>

\* requests.get raises (no connection, timeout): nothing catches it.
RequestRaises ==
  /\ pc \in {"book", "referencework", "dx.doi.org"}
  /\ pc' = "aborted"
  /\ err' = "RequestException"
  /\ Exit
  /\ UNCHANGED <<fs, args, first_row, rerun, i, book_count, out, saves, ws0,
                 runs>>

(***************************************************************************)
(* Lines 79-90: the page is parsed and the six cells are written.          *)
(***************************************************************************)
\* Lines 79-82.
ParserFor(flag) == IF flag THEN "ParseLandoltBookPage" ELSE "ParseBookPage"

Parse(name, html) ==
  IF name = "ParseLandoltBookPage" THEN ParseLandoltBookPage(html)
  ELSE ParseBookPage(html)

\* Lines 85-90.
WriteFields(sheet, row, book_dict) ==
  LET w1 == set_cell(sheet, row, series_col, book_dict.series)
      w2 == set_cell(w1, row, acronym_col, book_dict.acronym)
      w3 == set_cell(w2, row, volume_col, book_dict.volume)
      w4 == set_cell(w3, row, year_col, book_dict.year)
      w5 == set_cell(w4, row, package_col, book_dict.package)
  IN set_cell(w5, row, subseries_col, book_dict.subseries)

ParseAndWrite ==
  /\ pc = "parse"
  /\ LET book_dict == Parse(ParserFor(landolt), book_html)
     IN /\ ws' = WriteFields(ws, i, book_dict)
        /\ out' = [out EXCEPT ![i] = [written |-> TRUE, dict |-> book_dict]]
  /\ parser' = ParserFor(landolt)
  /\ pc' = "save"
  /\ UNCHANGED <<fs, args, first_row, rerun, i, book_count, book_html, landolt,
                 reqs, saves, ws0, err, runs>>

(***************************************************************************)
(* Lines 91-93: the saves.                                                 *)
(***************************************************************************)
\* Saved with a fault: the save of row i comes before the row's cells are written.
SavedBeforeWrite(files, sheet) ==
  [files EXCEPT ![new_filename] = File([sheet EXCEPT ![i] = ws0[i]])]

\* wb.save(new_filename)
Saved(files, sheet) == [files EXCEPT ![new_filename] = File(sheet)]

\* SaveDue with a fault: the save falls one row late; or the books are
\* counted in place of the rows.
SaveDueOneLate(row, books) == row % SaveInterval = 1
SaveDueByBooks(row, books) == books % SaveInterval = 0

\* Line 91.
SaveDue(row, books) == row % SaveInterval = 0

\* The end of the loop body for row i.  The locals of the iteration are dead
\* from here on: the next iteration assigns them before it reads them.
Checkpoint ==
  /\ pc = "save"
  /\ IF SaveDue(i, book_count)
       THEN fs' = Saved(fs, ws) /\ saves' = saves \cup {i}
       ELSE UNCHANGED <<fs, saves>>
  /\ i' = i + 1
  /\ pc' = "loop"
  /\ book_html' = NoneHtml
  /\ landolt' = FALSE
  /\ reqs' = <<>>
  /\ parser' = "none"
  /\ UNCHANGED <<args, first_row, rerun, ws, book_count, out, ws0, err, runs>>

\* Line 93: the loop is over.
FinalSave ==
  /\ pc = "loop"
  /\ i > max_row
  /\ fs' = Saved(fs, ws)
  /\ pc' = "done"
  /\ Exit
  /\ UNCHANGED <<args, first_row, rerun, i, book_count, out, saves, ws0, err,
                 runs>>

\* The process is terminated in the middle of a run.
Interrupt ==
  /\ pc \in Running
  /\ pc' = "killed"
  /\ Exit
  /\ UNCHANGED <<fs, args, first_row, rerun, i, book_count, out, saves, ws0,
                 err, runs>>

FirstRows == MinRow..(max_row + 1)

Next ==
  \/ \E fr \in FirstRows : StartFresh(fr)
  \/ \E fr \in FirstRows : StartRerun(fr)
  \/ \E fr \in FirstRows : LoadFails(fr)
  \/ SkipRow
  \/ BeginRow
  \/ DoiTypeError
  \/ \E resp \in Responses : RequestBook(resp)
  \/ \E resp \in Responses : RequestReferencework(resp)
  \/ \E resp \in Responses : RequestDxDoi(resp)
  \/ RequestRaises
  \/ ParseAndWrite
  \/ Checkpoint
  \/ FinalSave
  \/ Interrupt

Spec == Init /\ [][Next]_vars

\* The runs for any pair of column letters.
SpecAnyColumns == InitAnyColumns /\ [][Next]_vars

TypeOK ==
  /\ pc \in Running \cup Stopped
  /\ i \in MinRow..(max_row + 1)
  /\ runs \in 0..MaxRuns

(***************************************************************************)
(* Vocabulary of the properties below, stated without the operators the    *)
(* run itself uses to find its columns and its rows.                       *)
(***************************************************************************)
\* The position of the ISSN column in the sheet: "A" is 1.
IssnPos == ord(issn_col) - 64
DoiPos == ord(doi_col) - 64

\* The k-th of the six field cells of row r, and the six of them.
FieldCell(grid, r, k) == grid[r][IssnPos + k]
FieldCells(grid, r) == [k \in 1..NewCols |-> FieldCell(grid, r, k)]

\* The cells of row r outside the six field columns.
OtherCells(grid, r) ==
  [c \in Cols \ {IssnPos + k : k \in 1..NewCols} |-> grid[r][c]]

\* A book_dict in the field order series, acronym, volume, year, package,
\* subseries.
InFieldOrder(d) ==
  <<d.series, d.acronym, d.volume, d.year, d.package, d.subseries>>

\* The ISSN cell of row r was empty when the current run loaded the workbook.
IssnEmpty(r) == ws0[r][IssnPos] = None

\* The rows whose loop body the current run has completed.
CompletedRows == {r \in Rows : first_row <= r /\ r < i}

\* The completed rows at which line 91 saves.
CheckpointRows == {r \in CompletedRows : r % 1000 = 0}

\* The current run has loaded its workbook.
Loaded ==
  \/ pc \in Running
  \/ pc \in {"done", "killed"}
  \/ pc = "aborted" /\ err # "IOError"

Endpoints == <<"book", "referencework", "dx.doi.org">>

\* Row i has been enhanced and its loop body has not ended yet.
RowWritten == pc = "save" /\ out[i].written

\* All three places have answered 404 for row i.
AllNotFound ==
  /\ Len(reqs) = 3
  /\ \A k \in 1..3 : reqs[k][2] = 404

\* The row of the current run's latest save (max_row for the final save).
LastSavedRow ==
  IF pc = "done" THEN max_row
  ELSE CHOOSE r \in saves : \A q \in saves : q <= r

HasSaved == Loaded /\ (pc = "done" \/ saves # {})

\* The versioned file holds the fields the current run wrote for row r.
OnDisk(r) ==
  /\ fs[new_filename].exists
  /\ FieldCells(fs[new_filename].grid, r) = InFieldOrder(out[r].dict)

(***************************************************************************)
(* C1.  A row whose ISSN cell is empty is skipped: no request is made for  *)
(* it and none of its cells is written; the row keeps the values it had    *)
(* when the workbook was loaded.                                           *)
(***************************************************************************)
C1_SkipRule ==
  /\ pc \in {"book", "referencework", "dx.doi.org", "parse"} => ~IssnEmpty(i)
  /\ pc = "save" /\ IssnEmpty(i) =>
       /\ reqs = <<>>
       /\ ~out[i].written
       /\ ws[i] = ws0[i]
  /\ pc \in Running =>
       \A r \in CompletedRows :
         IssnEmpty(r) => ~out[r].written /\ ws[r] = ws0[r]

\* C1 happens: a row without ISSN and with a DOI is skipped after an earlier
\* row was enhanced.
C1_Witness ==
  /\ pc = "save"
  /\ IssnEmpty(i)
  /\ ws0[i][DoiPos] # None
  /\ \E r \in CompletedRows : out[r].written

(***************************************************************************)
(* C2.  The three places are asked in the order book, referencework,       *)
(* dx.doi.org; a place is asked only after the one before it answered 404, *)
(* and the first answer other than 404 ends the chain.  An enhanced row    *)
(* has caused one to three requests.  When book answers 404 and            *)
(* referencework answers otherwise, dx.doi.org is not asked and            *)
(* ParseBookPage is used.                                                  *)
(***************************************************************************)
C2_FallbackOrder ==
  /\ Len(reqs) <= 3
  /\ \A k \in 1..Len(reqs) :
       /\ reqs[k][1] = Endpoints[k]
       /\ k < Len(reqs) => reqs[k][2] = 404
  /\ \A k \in 1..3 : pc = Endpoints[k] =>
       Len(reqs) = k - 1
  /\ pc = "parse" \/ RowWritten =>
       /\ Len(reqs) \in 1..3
       /\ Len(reqs) < 3 => reqs[Len(reqs)][2] # 404
  /\ pc = "parse" /\ Len(reqs) = 2 => ~landolt
  /\ RowWritten /\ Len(reqs) = 2 =>
       /\ parser = "ParseBookPage"
       /\ out[i].dict = ParseBookPage(book_html)

\* C2 happens: book answers 404, referencework answers with a book page.
C2_Witness ==
  /\ RowWritten
  /\ reqs = <<<<"book", 404>>, <<"referencework", 200>>>>
  /\ parser = "ParseBookPage"
  /\ book_html = BookPage

C4_AllAbsentDefaults ==
  /\ AllNotFound => pc \in {"parse", "save"} /\ book_html.isNone /\ err = "none"
  /\ AllNotFound /\ pc = "save" =>
       /\ out[i].written
       /\ FieldCells(ws, i) =
            <<StrCell("Unavailable"), StrCell(""), StrCell(""), StrCell(""),
              StrCell(""), StrCell("")>>

\* C4 happens: a row is written after three answers 404.
C4_Witness ==
  /\ AllNotFound
  /\ RowWritten
  /\ FieldCell(ws, i, 1) = StrCell("Unavailable")

(***************************************************************************)
(* C5.  Whenever the current run has saved, the versioned file holds the   *)
(* six fields of every row with an ISSN from first_row up to the row at    *)
(* which it saved last; after the final save, of every such row up to      *)
(* max_row.                                                                *)
(***************************************************************************)
C5_SavesHoldAllRowsSoFar ==
  HasSaved =>
    /\ fs[new_filename].exists
    /\ \A r \in Rows :
         first_row <= r /\ r <= LastSavedRow /\ ~IssnEmpty(r) =>
           /\ out[r].written
           /\ FieldCells(fs[new_filename].grid, r) = InFieldOrder(out[r].dict)

\* C5 happens: the run saved at a row it had just enhanced, after an earlier
\* enhanced row.
C5_Witness ==
  /\ pc = "loop"
  /\ saves # {}
  /\ i = LastSavedRow + 1
  /\ out[LastSavedRow].written
  /\ \E r \in CompletedRows : r < LastSavedRow /\ out[r].written

(***************************************************************************)
(* C6.  A rerun opens the versioned file and does not insert the six       *)
(* columns again; it leaves the rows below first_row as they are and, when *)
(* it ends, has written the six fields of every row with an ISSN from      *)
(* first_row to max_row and has saved to the versioned file, which a fresh *)
(* run saves to as well.  The source file is never written.                *)
(* C6_ResumeFrame is the part that holds in every state.                   *)
(***************************************************************************)
C6_ResumeFrame ==
  rerun /\ Loaded =>
    /\ fs[new_filename].exists
    /\ \A r \in Rows : r < first_row =>
         /\ fs[new_filename].grid[r] = ws0[r]
         /\ pc \in Running => ws[r] = ws0[r]
    /\ pc = "done" =>
         \A r \in Rows : first_row <= r =>
           /\ OtherCells(fs[new_filename].grid, r) = OtherCells(ws0, r)
           /\ IF IssnEmpty(r)
                THEN fs[new_filename].grid[r] = ws0[r]
                ELSE /\ out[r].written
                     /\ FieldCells(fs[new_filename].grid, r)
                          = InFieldOrder(out[r].dict)

\* C6, the load: a rerun starts from the versioned file as it is on disk.
C6_ResumeLoad ==
  rerun' /\ runs' # runs /\ pc' = "loop" =>
    /\ fs[new_filename].exists
    /\ ws0' = fs[new_filename].grid
    /\ ws' = ws0'

\* C6, the saves: every save goes to the versioned file.
C6_SaveTarget ==
  /\ fs'[filename] = fs[filename]
  /\ fs' # fs => fs'[new_filename].exists

\* C6: the three parts together, in every state and at every step of a run.
C6_Resume ==
  /\ []C6_ResumeFrame
  /\ [][C6_ResumeLoad /\ C6_SaveTarget]_vars

\* C6 happens: a rerun from a row below which an earlier run has populated a
\* row has ended after enhancing a row.
C6_Witness ==
  /\ rerun
  /\ pc = "done"
  /\ \E r \in Rows : r < first_row /\ ws0[r][IssnPos + 1] # None
  /\ \E r \in Rows : first_row <= r /\ out[r].written

C8_OnlyWorkbookErrorsAbort ==
  pc = "aborted" => err = "IOError"

(***************************************************************************)
(* C9.  As claimed: a fresh run inserts the six columns immediately before *)
(* the ISSN column, and the fields of an enhanced row go into them in the  *)
(* order series, acronym, volume, year, package, subseries.                *)
(***************************************************************************)
C9_ColumnsBeforeIssn ==
  /\ ~rerun /\ Loaded =>
       \A r \in Rows :
         /\ \A k \in 0..(NewCols - 1) : ws0[r][IssnPos + k] = None
         /\ ws0[r][IssnPos + NewCols] = fs[filename].grid[r][IssnPos]
  /\ RowWritten =>
       [k \in 1..NewCols |-> ws[i][IssnPos + k - 1]] = InFieldOrder(out[i].dict)

(***************************************************************************)
(* C9, amended.  A fresh run inserts the six columns immediately after the *)
(* ISSN column: the columns up to the ISSN column stay, the next six are   *)
(* new and the columns that followed the ISSN column move right by six.    *)
(* The six positions follow from the ISSN letter alone, and the fields of  *)
(* an enhanced row go into them, and nowhere else, in the order series,    *)
(* acronym, volume, year, package, subseries.                              *)
(***************************************************************************)
C9_ColumnsAfterIssn ==
  /\ <<series_col, acronym_col, volume_col, year_col, package_col, subseries_col>>
       = [k \in 1..NewCols |-> IssnPos + k]
  /\ ~rerun /\ Loaded =>
       \A r \in Rows : \A c \in Cols :
         ws0[r][c] = IF c <= IssnPos THEN fs[filename].grid[r][c]
                     ELSE IF c <= IssnPos + NewCols THEN None
                     ELSE fs[filename].grid[r][c - NewCols]
  /\ RowWritten =>
       /\ FieldCells(ws, i) = InFieldOrder(out[i].dict)
       /\ OtherCells(ws, i) = OtherCells(ws0, i)

\* C9 happens: a fresh run has enhanced a row with six different fields, in a
\* sheet with a column behind the ISSN column.
C9_Witness ==
  /\ ~rerun
  /\ RowWritten
  /\ out[i].dict = ParseBookPage(BookPage)
  /\ IssnPos < SrcCols
  /\ ws0[i][IssnPos + NewCols + 1] # None

(***************************************************************************)
(* C10.  A run saves in the loop at exactly the rows that are multiples of *)
(* 1000, enhanced or skipped, and once more after the loop, also when the  *)
(* range of rows is empty; so it never visits more than 1000 rows in a row *)
(* without a save.                                                         *)
(***************************************************************************)
C10_SaveCadence ==
  /\ Loaded => saves = CheckpointRows
  /\ pc \in Running =>
       LET since == {r \in CompletedRows \cup {i} : \A q \in saves : q < r}
       IN Cardinality(since) <= 1000
  /\ pc = "loop" /\ i > max_row => ENABLED FinalSave
  /\ pc = "done" =>
       /\ i = max_row + 1
       /\ fs[new_filename].exists
       /\ \A r \in Rows :
            IF out[r].written
              THEN /\ OnDisk(r)
                   /\ OtherCells(fs[new_filename].grid, r) = OtherCells(ws0, r)
              ELSE fs[new_filename].grid[r] = ws0[r]

\* C10 happens: the run has saved at a row it skipped.
C10_Witness ==
  /\ pc \in Running
  /\ \E r \in saves : IssnEmpty(r) /\ ~out[r].written

(***************************************************************************)
(* C11.  As claimed: whatever the two column letters and whether the run   *)
(* is fresh or a rerun, the ISSN and the DOI a run reads for row i are the *)
(* source sheet's ISSN cell and DOI cell of row i, and none of the six     *)
(* field columns is the column the run reads the ISSN or the DOI from.     *)
(***************************************************************************)
C11_IdentifiersAreTheSourceCells ==
  pc = "loop" /\ i \in Rows =>
    /\ cell(ws, i, issn_index(issn_col)) = fs[filename].grid[i][IssnPos]
    /\ DoiOf(ws, i) = fs[filename].grid[i][DoiPos]
    /\ \A k \in 1..NewCols :
         /\ IssnPos + k # issn_index(issn_col)
         /\ IssnPos + k # doi_index(doi_col)

====
